---- MODULE Spec2Model ----
(***************************************************************************)
(* A model of anki_spelling_generator.py: the four-stage pipeline          *)
(* extract words -> generate sentences -> synthesize speech -> write deck. *)
(* Text is modelled as a sequence of one-character strings, so that        *)
(* splitting, stripping, path building and line counting are computed the  *)
(* way the Python code computes them.                                      *)
(***************************************************************************)
EXTENDS Integers, Sequences, FiniteSets, TLC

VARIABLES
    api_key,            \* os.environ.get('OPENAI_API_KEY'): "unset", <<>> or a key
    pc,                 \* position of the controlling thread in main
    file_prefix,        \* str(int(time.time())) read once in main
    vision_response,    \* what the vision endpoint will answer (stage 1)
    chat_response,      \* what the chat endpoint will answer (stage 2)
    spelling_words,     \* result of extract_spelling_words_from_image
    example_sentences,  \* result of generate_example_sentences (ordered dict)
    futures,            \* future_to_word: one record per submitted task
    yielded,            \* indices of the futures as_completed has yielded
    audio_files,        \* the dict built by convert_text_to_speech (ordered)
    fs,                 \* files of the output directory: path -> content
    issued,             \* number of requests issued so far, per endpoint
    output_file,        \* the destination handed to create_anki_deck
    deck_arg,           \* the audio_files argument of a create_anki_deck call
    deck_returned       \* sequence of values returned by create_anki_deck

vars == <<api_key, pc, file_prefix, vision_response, chat_response,
          spelling_words, example_sentences, futures, yielded, audio_files,
          fs, issued, output_file, deck_arg, deck_returned>>

----------------------------------------------------------------------------
(* Bounds of the model *)

MaxLen == 6          \* longest chat response text enumerated for the parser
MaxWords == 5        \* largest number of lines in a pipeline chat response
MaxDeckEntries == 2  \* largest mapping handed to create_anki_deck directly
MaxDeckRuns == 2     \* how often create_anki_deck is re-run on one destination

(* ThreadPoolExecutor(max_workers=4) *)
max_workers == 4

----------------------------------------------------------------------------
(* Text helpers: Python str operations on sequences of characters *)

Whitespace == {" ", "\n", "\t"}

RECURSIVE LStrip(_)
LStrip(s) ==
    IF s = <<>> THEN <<>>
    ELSE IF Head(s) \in Whitespace THEN LStrip(Tail(s)) ELSE s

RECURSIVE RStrip(_)
RStrip(s) ==
    IF s = <<>> THEN <<>>
    ELSE IF s[Len(s)] \in Whitespace THEN RStrip(SubSeq(s, 1, Len(s) - 1)) ELSE s

(* str.strip() *)
Strip(s) == RStrip(LStrip(s))

(* index of the first occurrence of character c in s, 0 when absent *)
RECURSIVE IndexFrom(_, _, _)
IndexFrom(s, c, i) ==
    IF i > Len(s) THEN 0
    ELSE IF s[i] = c THEN i ELSE IndexFrom(s, c, i + 1)

Find(s, c) == IndexFrom(s, c, 1)

(* str.split(c): cuts at EVERY occurrence of c; k occurrences give k+1 pieces *)
RECURSIVE Split(_, _)
Split(s, c) ==
    LET i == Find(s, c) IN
    IF i = 0 THEN <<s>>
    ELSE <<SubSeq(s, 1, i - 1)>> \o Split(SubSeq(s, i + 1, Len(s)), c)

(* str.split() without argument: runs of whitespace separate, no empty piece *)
RECURSIVE SplitWhitespace(_)
SplitWhitespace(s) ==
    LET t == LStrip(s) IN
    IF t = <<>> THEN <<>>
    ELSE LET ends == {i \in 1..Len(t) : t[i] \in Whitespace}
             j == IF ends = {} THEN Len(t) + 1
                  ELSE CHOOSE i \in ends : \A k \in ends : i <= k
         IN <<SubSeq(t, 1, j - 1)>> \o SplitWhitespace(SubSeq(t, j, Len(t)))

(* an insertion-ordered dict is a sequence of <<key, value>> with distinct keys *)
Keys(d) == {d[i][1] : i \in 1..Len(d)}

IsDict(d) == \A i, j \in 1..Len(d) : d[i][1] = d[j][1] => i = j

(* d[k] = v: an existing key keeps its position and takes the new value *)
DictSet(d, k, v) ==
    IF k \in Keys(d)
    THEN [i \in 1..Len(d) |-> IF d[i][1] = k THEN <<k, v>> ELSE d[i]]
    ELSE Append(d, <<k, v>>)

----------------------------------------------------------------------------
(* Stage 2: the parser of generate_example_sentences *)

(* variant: a line that does not split into two pieces is skipped *)
RECURSIVE parse_lines_skipping(_, _)
parse_lines_skipping(lines, sentences) ==
    IF lines = <<>> THEN [raised |-> FALSE, sentences |-> sentences]
    ELSE LET parts == Split(Head(lines), "|") IN
         IF Len(parts) # 2 THEN parse_lines_skipping(Tail(lines), sentences)
         ELSE parse_lines_skipping(Tail(lines),
                                   DictSet(sentences, Strip(parts[1]), Strip(parts[2])))

(* the for loop over the lines: `word, sentence = line.split('|')` raises     *)
(* ValueError unless the line splits into exactly two pieces; the dict being   *)
(* built is a local, so nothing of it survives the exception                   *)
RECURSIVE parse_lines(_, _)
parse_lines(lines, sentences) ==
    IF lines = <<>> THEN [raised |-> FALSE, sentences |-> sentences]
    ELSE LET parts == Split(Head(lines), "|") IN
         IF Len(parts) # 2 THEN [raised |-> TRUE, sentences |-> <<>>]
         ELSE parse_lines(Tail(lines),
                          DictSet(sentences, Strip(parts[1]), Strip(parts[2])))

(* response.choices[0].message.content.strip().split('\n') *)
response_lines(content) == Split(Strip(content), "\n")

parse_response(content) == parse_lines(response_lines(content), <<>>)

----------------------------------------------------------------------------
(* Stage 3: paths and synthesis input *)

(* the --output argument *)
output_directory == <<"o">>

Mp3 == <<".", "m", "p", "3">>

(* variant: the name lacks the run's prefix *)
audio_file_path_no_prefix(dir, prefix, word) == dir \o <<"/">> \o word \o Mp3

(* variant: the name lacks the word, one file for the whole run *)
audio_file_path_shared(dir, prefix, word) == dir \o <<"/">> \o prefix \o Mp3

(* output_directory / f"{file_prefix}_{word}.mp3" *)
audio_file_path(dir, prefix, word) ==
    dir \o <<"/">> \o prefix \o <<"_">> \o word \o Mp3

(* input=f'"{word}"... {sentence}... "{word}".' ; the audio returned is a      *)
(* function of this text, and stands for response.content                      *)
speech_input(word, sentence) ==
    <<"\"">> \o word \o <<"\"", ".", ".", ".", " ">> \o sentence
        \o <<".", ".", ".", " ", "\"">> \o word \o <<"\"", ".">>

(* open(audio_file_path, "wb") finds the parent directory: the output directory *)
(* exists and holds no subdirectory, so a word containing "/" names a file in  *)
(* a directory that does not exist and open raises FileNotFoundError           *)
parent_exists(dir, path) ==
    LET parts == Split(path, "/") IN Len(parts) = 2 /\ parts[1] = dir

(* variant: the whole path, as str(audio_path) *)
PathWhole(p) == p

(* Path.name: the final component of a path *)
PathName(p) == LET parts == Split(p, "/") IN parts[Len(parts)]

----------------------------------------------------------------------------
(* Stage 4: the deck text *)

HeaderSeparator ==
    <<"#", "s", "e", "p", "a", "r", "a", "t", "o", "r", ":", "t", "a", "b", "\n">>
HeaderHtml == <<"#", "h", "t", "m", "l", ":", "t", "r", "u", "e", "\n">>
HeaderNotetype ==
    <<"#", "n", "o", "t", "e", "t", "y", "p", "e", " ", "c", "o", "l", "u", "m",
      "n", ":", "1", "\n">>

RowStart ==
    <<"B", "a", "s", "i", "c", " ", "(", "t", "y", "p", "e", " ", "i", "n", " ",
      "t", "h", "e", " ", "a", "n", "s", "w", "e", "r", ")", "\t", "[", "s", "o",
      "u", "n", "d", ":">>

(* f"Basic (type in the answer)\t[sound:{audio_path.name}]\t{word}\n" *)
deck_line(word, audio_path) ==
    RowStart \o PathName(audio_path) \o <<"]", "\t">> \o word \o <<"\n">>

(* variant: the rows in reverse iteration order *)
RECURSIVE deck_rows_reversed(_)
deck_rows_reversed(audio) ==
    IF audio = <<>> THEN <<>>
    ELSE deck_rows_reversed(Tail(audio)) \o deck_line(audio[1][1], audio[1][2])

RECURSIVE deck_rows(_)
deck_rows(audio) ==
    IF audio = <<>> THEN <<>>
    ELSE deck_line(audio[1][1], audio[1][2]) \o deck_rows(Tail(audio))

(* what the three header writes and the loop write into the opened file *)
deck_text(audio) == HeaderSeparator \o HeaderHtml \o HeaderNotetype \o deck_rows(audio)

(* variant: mode 'a', the text is added to what the file holds *)
open_a(fsys, path, text) ==
    [p \in DOMAIN fsys \cup {path} |->
        IF p = path
        THEN (IF path \in DOMAIN fsys THEN fsys[path] ELSE <<>>) \o text
        ELSE fsys[p]]

(* open(output_file, 'w'): the file is created or truncated, then written *)
open_w(fsys, path, text) ==
    [p \in DOMAIN fsys \cup {path} |-> IF p = path THEN text ELSE fsys[p]]

(* create_anki_deck: the file system after the call *)
create_anki_deck(fsys, audio, dest) ==
    open_w(fsys, dest, deck_text(audio))

(* Path(output_directory) / f"{file_prefix}_anki_deck.txt" *)
deck_output_file(dir, prefix) ==
    dir \o <<"/">> \o prefix
        \o <<"_", "a", "n", "k", "i", "_", "d", "e", "c", "k", ".", "t", "x", "t">>

NoFiles == [p \in {} |-> <<>>]

----------------------------------------------------------------------------
(* Inputs of a run *)

Fault == [ok |-> FALSE, content |-> <<>>]
Reply(text) == [ok |-> TRUE, content |-> text]

(* the environment variable: unset, set to the empty string, or a key *)
ApiKeys == {[set |-> FALSE, value |-> <<>>],
            [set |-> TRUE, value |-> <<>>],
            [set |-> TRUE, value |-> <<"k">>]}

Prefixes == {<<"1">>}

(* the k-th word of a pipeline response: k letters *)
Word(k) == [i \in 1..k |-> "a"]

(* the text "w1|s\nw2|s\n...": n well-formed lines *)
RECURSIVE WellFormed(_)
WellFormed(n) ==
    IF n = 0 THEN <<>>
    ELSE WellFormed(n - 1) \o (IF n = 1 THEN <<>> ELSE <<"\n">>)
             \o Word(n) \o <<"|", " ", "s">>

VisionResponses == {Fault, Reply(<<"a", "\n", "a", "a", "\n">>)}

(* well-formed responses of 1..MaxWords lines, a response whose second line    *)
(* lacks the separator, one whose second line has two, one with a repeated     *)
(* word and a word that contains "/", and a failed request                     *)
PipelineChatResponses ==
    {Reply(WellFormed(n)) : n \in 1..MaxWords}
        \cup {Reply(WellFormed(1) \o <<"\n", "a", "a">>),
              Reply(WellFormed(1) \o <<"\n", "a", "a", "|", "s", "|", "s">>),
              Reply(WellFormed(2) \o <<"\n", "a", "/", "a", "|", "s", "\n", "a", "|", "t">>),
              Fault}

NoRequests == [vision |-> 0, chat |-> 0, speech |-> 0]

TypeBlank ==
    /\ spelling_words = <<>>
    /\ example_sentences = <<>>
    /\ futures = <<>>
    /\ yielded = {}
    /\ audio_files = <<>>
    /\ issued = NoRequests
    /\ deck_arg = <<>>
    /\ deck_returned = <<>>

Init ==
    /\ api_key \in ApiKeys
    /\ pc = "main"
    /\ file_prefix = <<>>
    /\ vision_response \in VisionResponses
    /\ chat_response \in PipelineChatResponses
    /\ fs = NoFiles
    /\ output_file = <<>>
    /\ TypeBlank

----------------------------------------------------------------------------
(* main, lines 172-188 *)

(* variant: `if api_key is None` *)
not_api_key_unset_only == ~api_key.set

(* `if not api_key`: None and the empty string are both falsy *)
not_api_key == ~api_key.set \/ api_key.value = <<>>

MainExit ==
    /\ pc = "main"
    /\ not_api_key
    /\ pc' = "exit1"
    /\ UNCHANGED <<api_key, file_prefix, vision_response, chat_response,
                   spelling_words, example_sentences, futures, yielded,
                   audio_files, fs, issued, output_file, deck_arg, deck_returned>>

MainPrefix ==
    /\ pc = "main"
    /\ ~not_api_key
    /\ \E p \in Prefixes : file_prefix' = p
    /\ pc' = "extract"
    /\ UNCHANGED <<api_key, vision_response, chat_response, spelling_words,
                   example_sentences, futures, yielded, audio_files, fs,
                   issued, output_file, deck_arg, deck_returned>>

(* extract_spelling_words_from_image: one request, then content.split() *)
extract_spelling_words_from_image ==
    /\ pc = "extract"
    /\ issued' = [issued EXCEPT !.vision = @ + 1]
    /\ IF vision_response.ok
       THEN /\ spelling_words' = SplitWhitespace(vision_response.content)
            /\ pc' = "generate"
       ELSE /\ pc' = "fault"
            /\ UNCHANGED spelling_words
    /\ UNCHANGED <<api_key, file_prefix, vision_response, chat_response,
                   example_sentences, futures, yielded, audio_files, fs,
                   output_file, deck_arg, deck_returned>>

(* generate_example_sentences: one request, then the parse *)
generate_example_sentences ==
    /\ pc = "generate"
    /\ issued' = [issued EXCEPT !.chat = @ + 1]
    /\ LET r == parse_response(chat_response.content) IN
       IF chat_response.ok /\ ~r.raised
       THEN /\ example_sentences' = r.sentences
            /\ pc' = IF r.sentences = <<>> THEN "as_completed" ELSE "submit"
       ELSE /\ pc' = "fault"
            /\ UNCHANGED example_sentences
    /\ UNCHANGED <<api_key, file_prefix, vision_response, chat_response,
                   spelling_words, futures, yielded, audio_files, fs,
                   output_file, deck_arg, deck_returned>>

----------------------------------------------------------------------------
(* Stage 3: convert_text_to_speech and its worker pool, lines 103-144 *)

Running(futs) == {i \in 1..Len(futs) : futs[i].state = "running"}

Finished(futs) == {i \in 1..Len(futs) : futs[i].state \in {"ok", "failed"}}

(* variant: one worker thread too many *)
worker_available_off_by_one(futs) == Cardinality(Running(futs)) <= max_workers

(* variant: an exception in one task cancels the work items still queued *)
fail_task_cancelling(futs, i) ==
    [j \in 1..Len(futs) |->
        IF j = i THEN [futs[j] EXCEPT !.state = "failed"]
        ELSE IF futs[j].state = "queued" THEN [futs[j] EXCEPT !.state = "cancelled"]
        ELSE futs[j]]

(* ThreadPoolExecutor(max_workers=4): a queued work item is taken only by a    *)
(* worker thread that is not running another item, and there are at most       *)
(* max_workers threads                                                         *)
worker_available(futs) == Cardinality(Running(futs)) < max_workers

(* what an exception in a task does to the futures: that future alone fails *)
fail_task(futs, i) == [futs EXCEPT ![i].state = "failed"]

(* executor.submit(...) for the next item of sentences.items() *)
executor_submit ==
    /\ pc = "submit"
    /\ LET i == Len(futures) + 1 IN
       /\ i <= Len(example_sentences)
       /\ futures' = Append(futures,
                            [word |-> example_sentences[i][1],
                             sentence |-> example_sentences[i][2],
                             state |-> "queued",
                             wrote |-> <<>>])
       /\ pc' = IF i = Len(example_sentences) THEN "as_completed" ELSE "submit"
    /\ UNCHANGED <<api_key, file_prefix, vision_response, chat_response,
                   spelling_words, example_sentences, yielded, audio_files,
                   fs, issued, output_file, deck_arg, deck_returned>>

(* a worker takes the oldest queued work item and issues its request *)
task_start(i) ==
    /\ futures[i].state = "queued"
    /\ \A j \in 1..(i - 1) : futures[j].state # "queued"
    /\ worker_available(futures)
    /\ futures' = [futures EXCEPT ![i].state = "running"]
    /\ issued' = [issued EXCEPT !.speech = @ + 1]
    /\ UNCHANGED <<api_key, pc, file_prefix, vision_response, chat_response,
                   spelling_words, example_sentences, yielded, audio_files,
                   fs, output_file, deck_arg, deck_returned>>

(* client.audio.speech.create raises, or open() raises: no file is created *)
task_request_raises(i) ==
    /\ futures[i].state = "running"
    /\ futures' = fail_task(futures, i)
    /\ UNCHANGED <<api_key, pc, file_prefix, vision_response, chat_response,
                   spelling_words, example_sentences, yielded, audio_files,
                   fs, issued, output_file, deck_arg, deck_returned>>

(* the request returns, the file is opened "wb", written and closed *)
task_writes(i) ==
    /\ futures[i].state = "running"
    /\ LET path == audio_file_path(output_directory, file_prefix, futures[i].word) IN
       /\ parent_exists(output_directory, path)
       /\ fs' = open_w(fs, path, speech_input(futures[i].word, futures[i].sentence))
       /\ futures' = [futures EXCEPT ![i].state = "ok", ![i].wrote = path]
    /\ UNCHANGED <<api_key, pc, file_prefix, vision_response, chat_response,
                   spelling_words, example_sentences, yielded, audio_files,
                   issued, output_file, deck_arg, deck_returned>>

(* the file is opened (created empty) and audio_file.write raises *)
task_write_raises(i) ==
    /\ futures[i].state = "running"
    /\ LET path == audio_file_path(output_directory, file_prefix, futures[i].word) IN
       /\ parent_exists(output_directory, path)
       /\ fs' = open_w(fs, path, <<>>)
       /\ futures' = [fail_task(futures, i) EXCEPT ![i].wrote = path]
    /\ UNCHANGED <<api_key, pc, file_prefix, vision_response, chat_response,
                   spelling_words, example_sentences, yielded, audio_files,
                   issued, output_file, deck_arg, deck_returned>>

(* one iteration of `for future in as_completed(future_to_word)`: any finished *)
(* future not yet yielded; its result is stored, or its exception printed      *)
as_completed_next(i) ==
    /\ pc = "as_completed"
    /\ i \in Finished(futures) \ yielded
    /\ yielded' = yielded \cup {i}
    /\ audio_files' = IF futures[i].state = "ok"
                      THEN DictSet(audio_files, futures[i].word, futures[i].wrote)
                      ELSE audio_files
    /\ UNCHANGED <<api_key, pc, file_prefix, vision_response, chat_response,
                   spelling_words, example_sentences, futures, fs, issued,
                   output_file, deck_arg, deck_returned>>

(* as_completed is exhausted, the with block shuts the pool down, return *)
convert_text_to_speech_return ==
    /\ pc = "as_completed"
    /\ yielded = 1..Len(futures)
    /\ pc' = "create_deck"
    /\ UNCHANGED <<api_key, file_prefix, vision_response, chat_response,
                   spelling_words, example_sentences, futures, yielded,
                   audio_files, fs, issued, output_file, deck_arg, deck_returned>>

(* main, lines 185-188: the deck is written from audio_files *)
MainCreateDeck ==
    /\ pc = "create_deck"
    /\ output_file' = deck_output_file(output_directory, file_prefix)
    /\ deck_arg' = audio_files
    /\ fs' = create_anki_deck(fs, audio_files, output_file')
    /\ deck_returned' = Append(deck_returned, output_file')
    /\ pc' = "done"
    /\ UNCHANGED <<api_key, file_prefix, vision_response, chat_response,
                   spelling_words, example_sentences, futures, yielded,
                   audio_files, issued>>

TaskStart == \E i \in 1..Len(futures) : task_start(i)
TaskRequestRaises == \E i \in 1..Len(futures) : task_request_raises(i)
TaskWrites == \E i \in 1..Len(futures) : task_writes(i)
TaskWriteRaises == \E i \in 1..Len(futures) : task_write_raises(i)
AsCompletedNext == \E i \in 1..Len(futures) : as_completed_next(i)

Next ==
    \/ MainExit
    \/ MainPrefix
    \/ extract_spelling_words_from_image
    \/ generate_example_sentences
    \/ executor_submit
    \/ TaskStart
    \/ TaskRequestRaises
    \/ TaskWrites
    \/ TaskWriteRaises
    \/ AsCompletedNext
    \/ convert_text_to_speech_return
    \/ MainCreateDeck

Spec == Init /\ [][Next]_vars

(* Scheduling from stage 3 on: the controlling thread keeps running (submit,   *)
(* the as_completed loop, the return, the deck), and the worker threads keep   *)
(* running, each request eventually returning or raising                       *)
ControlThread ==
    \/ executor_submit
    \/ AsCompletedNext
    \/ convert_text_to_speech_return
    \/ MainCreateDeck

Workers == TaskStart \/ TaskRequestRaises \/ TaskWrites \/ TaskWriteRaises

FairSpec == Spec /\ WF_vars(ControlThread) /\ WF_vars(Workers)

----------------------------------------------------------------------------
(* The sentence parser on every response text up to MaxLen characters *)

ParseAlphabet == {"a", "b", "|", " ", "\n"}

Texts == UNION {[1..n -> ParseAlphabet] : n \in 0..MaxLen}

InitParse ==
    /\ api_key = [set |-> TRUE, value |-> <<"k">>]
    /\ pc = "generate"
    /\ file_prefix \in Prefixes
    /\ vision_response = Reply(<<>>)
    /\ chat_response \in {Reply(t) : t \in Texts}
    /\ fs = NoFiles
    /\ output_file = <<>>
    /\ TypeBlank

SpecParse == InitParse /\ [][generate_example_sentences]_vars

----------------------------------------------------------------------------
(* create_anki_deck called directly, once or repeatedly, on one destination *)

DeckWords == {<<"a">>, <<"b">>, <<"a", "\n", "b">>}

DeckPaths == {<<"o", "/", "1", "_", "a", ".", "m", "p", "3">>,
              <<"/", "t", "/", "o", "/", "b", ".", "m", "p", "3">>,
              <<"o", "/", "c", "\n", "d">>}

DeckMappings ==
    {d \in UNION {[1..n -> DeckWords \X DeckPaths] : n \in 0..MaxDeckEntries} :
        IsDict(d)}

DeckDestinations == {<<"o", "/", "d", ".", "t", "x", "t">>}

(* content the destination may hold before the call *)
OldContents == {<<"o", "l", "d", "\n", "o", "l", "d", "\n", "o", "l", "d", "\n",
                  "o", "l", "d", "\n", "o", "l", "d", "\n", "o", "l", "d", "\n">>}

InitDeck ==
    /\ api_key = [set |-> TRUE, value |-> <<"k">>]
    /\ pc = "unit_deck"
    /\ file_prefix = <<>>
    /\ vision_response = Reply(<<>>)
    /\ chat_response = Reply(<<>>)
    /\ output_file \in DeckDestinations
    /\ fs \in {NoFiles} \cup {open_w(NoFiles, output_file, c) : c \in OldContents}
    /\ spelling_words = <<>>
    /\ example_sentences = <<>>
    /\ futures = <<>>
    /\ yielded = {}
    /\ audio_files = <<>>
    /\ issued = NoRequests
    /\ deck_arg \in DeckMappings
    /\ deck_returned = <<>>

(* create_anki_deck(deck_arg, output_file), lines 146-169 *)
create_anki_deck_call ==
    /\ pc = "unit_deck"
    /\ Len(deck_returned) < MaxDeckRuns
    /\ fs' = create_anki_deck(fs, deck_arg, output_file)
    /\ deck_returned' = Append(deck_returned, output_file)
    /\ UNCHANGED <<api_key, pc, file_prefix, vision_response, chat_response,
                   spelling_words, example_sentences, futures, yielded,
                   audio_files, issued, output_file, deck_arg>>

SpecDeck == InitDeck /\ [][create_anki_deck_call]_vars

----------------------------------------------------------------------------
(* Properties *)

(* the lines of a text: the pieces ended by "\n", and a last unended piece *)
Lines(text) ==
    LET pieces == Split(text, "\n") IN
    IF pieces[Len(pieces)] = <<>> THEN SubSeq(pieces, 1, Len(pieces) - 1)
    ELSE pieces

(* the part of a path after its last "/" *)
Basename(p) ==
    LET slashes == {i \in 1..Len(p) : p[i] = "/"}
        last == IF slashes = {} THEN 0
                ELSE CHOOSE i \in slashes : \A j \in slashes : j <= i
    IN SubSeq(p, last + 1, Len(p))

HasNewline(t) == \E i \in 1..Len(t) : t[i] = "\n"

OkTasks == {i \in 1..Len(futures) : futures[i].state = "ok"}
FailedTasks == {i \in 1..Len(futures) : futures[i].state = "failed"}

(* the documented pattern {output_directory}/{file_prefix}_{word}.mp3 *)
ExpectedAudioPath(w) ==
    <<"o", "/">> \o file_prefix \o <<"_">> \o w \o <<".", "m", "p", "3">>

(* the row of the deck for a word and the name of its audio file *)
ExpectedRow(w, name) ==
    <<"B", "a", "s", "i", "c", " ", "(", "t", "y", "p", "e", " ", "i", "n", " ",
      "t", "h", "e", " ", "a", "n", "s", "w", "e", "r", ")", "\t">>
        \o <<"[", "s", "o", "u", "n", "d", ":">> \o name \o <<"]", "\t">> \o w

ExpectedHeader ==
    << <<"#", "s", "e", "p", "a", "r", "a", "t", "o", "r", ":", "t", "a", "b">>,
       <<"#", "h", "t", "m", "l", ":", "t", "r", "u", "e">>,
       <<"#", "n", "o", "t", "e", "t", "y", "p", "e", " ", "c", "o", "l", "u", "m",
         "n", ":", "1">> >>

(* C1: when convert_text_to_speech has returned for a mapping of N words of     *)
(* which M tasks failed, audio_files has exactly N-M entries, its keys are the  *)
(* words whose task succeeded, each maps to output_directory/prefix_word.mp3,   *)
(* that file has been written, and exactly one request per word was issued      *)
(* (no retry).                                                                  *)
C1_SynthesisResult ==
    pc \in {"create_deck", "done"} =>
        LET N == Len(example_sentences) IN
        /\ Len(futures) = N
        /\ OkTasks \cup FailedTasks = 1..N
        /\ Len(audio_files) = N - Cardinality(FailedTasks)
        /\ Keys(audio_files) = {futures[i].word : i \in OkTasks}
        /\ \A i \in FailedTasks : futures[i].word \notin Keys(audio_files)
        /\ \A k \in 1..Len(audio_files) :
              /\ audio_files[k][2] = ExpectedAudioPath(audio_files[k][1])
              /\ audio_files[k][2] \in DOMAIN fs
              /\ fs[audio_files[k][2]] # <<>>
        /\ issued.speech = N

C1_Witness ==
    /\ pc = "create_deck"
    /\ FailedTasks # {}
    /\ Len(audio_files) >= 2
    /\ Len(audio_files) = Len(example_sentences) - Cardinality(FailedTasks)

(* C3: with the credential unset or empty, main goes from its start to exit     *)
(* code 1 only: no request of any stage is issued, no task is submitted and no  *)
(* file is created.                                                             *)
C3_MissingCredential ==
    (~api_key.set \/ api_key.value = <<>>) =>
        /\ pc \in {"main", "exit1"}
        /\ issued = NoRequests
        /\ futures = <<>>
        /\ fs = NoFiles
        /\ deck_returned = <<>>

C3_Witness == pc = "exit1" /\ api_key.set /\ api_key.value = <<>>

(* C6: at most 4 synthesis requests are in flight in every state, and a task    *)
(* starts only while fewer than 4 are running; a task beyond the fourth starts  *)
(* only after some task has completed or failed.                                *)
C6_AtMostFourInFlight ==
    /\ [](Cardinality(Running(futures)) <= 4)
    /\ [][\A i \in 1..Len(futures) :
            (futures[i].state = "queued" /\ futures'[i].state = "running") =>
                /\ Cardinality(Running(futures)) < 4
                /\ (i > 4 => Finished(futures) # {})]_vars

C6_Witness ==
    /\ Len(futures) >= 5
    /\ Cardinality(Running(futures)) = 4
    /\ futures[5].state = "running"
    /\ Finished(futures) # {}

AllTasksDone ==
    /\ Len(futures) = Len(example_sentences)
    /\ Finished(futures) = 1..Len(futures)

(* C7: a failing task changes no sibling; convert_text_to_speech has returned,  *)
(* and the deck writer started or finished, only when every task of the mapping *)
(* is submitted and completed or failed; and, given that every request returns  *)
(* or raises, a run that has begun submitting eventually gets there.            *)
C7_FailureIsolation ==
    /\ [][\A i \in 1..Len(futures) :
            (futures[i].state = "running" /\ futures'[i].state = "failed") =>
                \A j \in (1..Len(futures)) \ {i} : futures'[j] = futures[j]]_vars
    /\ [](pc \in {"create_deck", "done"} => AllTasksDone)
    /\ ((pc = "submit") ~> (pc = "done"))

C7_Witness ==
    /\ pc = "done"
    /\ \E i, j \in 1..Len(futures) :
          i < j /\ futures[i].state = "failed" /\ futures[j].state = "ok"

LacksSeparator(text) ==
    \E k \in 1..Len(Split(Strip(text), "\n")) :
        Find(Split(Strip(text), "\n")[k], "|") = 0

StageOrder ==
    {<<"main", "exit1">>, <<"main", "extract">>,
     <<"extract", "generate">>, <<"extract", "fault">>,
     <<"generate", "submit">>, <<"generate", "fault">>,
     <<"submit", "as_completed">>, <<"as_completed", "create_deck">>,
     <<"create_deck", "done">>}

(* C8: the controlling thread moves through the stages in the order extract,    *)
(* generate, synthesize, write deck; a fault in the extraction response or a    *)
(* sentence-response line without "|" ends the run at that stage, with no       *)
(* sentence mapping returned, no task submitted, no speech request and no file. *)
C8_StagesInOrderAndAbort ==
    /\ [][pc' # pc => <<pc, pc'>> \in StageOrder]_vars
    /\ [](/\ issued.chat > 0 => issued.vision = 1
          /\ issued.speech > 0 => issued.chat = 1
          /\ deck_returned # <<>> => pc = "done")
    /\ [](~vision_response.ok =>
            /\ pc \in {"main", "exit1", "extract", "fault"}
            /\ issued.chat = 0)
    /\ []((chat_response.ok /\ LacksSeparator(chat_response.content)) =>
            pc \in {"main", "exit1", "extract", "generate", "fault"})
    /\ [](pc = "fault" =>
            /\ example_sentences = <<>>
            /\ futures = <<>>
            /\ issued.speech = 0
            /\ fs = NoFiles
            /\ deck_returned = <<>>)

C8_Witness ==
    /\ pc = "fault"
    /\ chat_response.ok
    /\ issued.chat = 1
    /\ LacksSeparator(chat_response.content)
    /\ Find(Split(Strip(chat_response.content), "\n")[1], "|") # 0

(* C9: no two synthesis tasks open the same audio file path for writing, and    *)
(* audio_files changes only in a step of the controlling thread's as_completed  *)
(* loop, by exactly one entry, while no task and no file changes.               *)
C9_NoWriteWriteRace ==
    /\ [](\A i, j \in 1..Len(futures) :
            (i # j /\ futures[i].wrote # <<>> /\ futures[j].wrote # <<>>) =>
                futures[i].wrote # futures[j].wrote)
    /\ [][audio_files' # audio_files =>
            /\ pc = "as_completed" /\ pc' = pc
            /\ futures' = futures
            /\ fs' = fs
            /\ Len(audio_files') = Len(audio_files) + 1
            /\ Cardinality(yielded') = Cardinality(yielded) + 1]_vars

C9_Witness ==
    /\ Len(audio_files) >= 1
    /\ \E i, j \in 1..Len(futures) :
          /\ i # j
          /\ futures[i].wrote # <<>>
          /\ futures[j].wrote # <<>>
    /\ Running(futures) # {}

DeckLines == Lines(fs[output_file])

(* C10: no task failure turns into a fault of the run; a finished run has written the deck prefix_anki_deck.txt whose lines    *)
(* are the header and exactly one row per successfully synthesized word, in the *)
(* order of audio_files; every row names the file prefix_word.mp3, written in   *)
(* this run; and every collected success is put last in audio_files, so that    *)
(* the rows are in collection order.                                            *)
C10_DeckOfSuccesses ==
    /\ [](futures # <<>> => pc # "fault")
    /\ [](pc = "done" =>
            /\ output_file = <<"o", "/">> \o file_prefix
                  \o <<"_", "a", "n", "k", "i", "_", "d", "e", "c", "k", ".", "t", "x", "t">>
            /\ output_file \in DOMAIN fs
            /\ Len(DeckLines) = 3 + Cardinality(OkTasks)
            /\ SubSeq(DeckLines, 1, 3) = ExpectedHeader
            /\ Len(audio_files) = Cardinality(OkTasks)
            /\ \A k \in 1..Len(audio_files) :
                  LET w == audio_files[k][1]
                      name == file_prefix \o <<"_">> \o w \o <<".", "m", "p", "3">>
                  IN /\ \E i \in OkTasks : futures[i].word = w
                     /\ DeckLines[3 + k] = ExpectedRow(w, name)
                     /\ (<<"o", "/">> \o name) \in DOMAIN fs
                     /\ fs[<<"o", "/">> \o name] # <<>>)
    /\ [][\A i \in 1..Len(futures) :
            (i \in yielded' \ yielded /\ futures[i].state = "ok") =>
                /\ Len(audio_files') = Len(audio_files) + 1
                /\ audio_files'[Len(audio_files')][1] = futures[i].word
                /\ SubSeq(audio_files', 1, Len(audio_files)) = audio_files]_vars

(* a finished run with a failed word whose rows are not in the word order of    *)
(* the sentence mapping                                                         *)
C10_Witness ==
    /\ pc = "done"
    /\ FailedTasks # {}
    /\ Len(audio_files) >= 2
    /\ \E k \in 1..(Len(audio_files) - 1) :
          \E i, j \in 1..Len(example_sentences) :
              /\ example_sentences[i][1] = audio_files[k][1]
              /\ example_sentences[j][1] = audio_files[k + 1][1]
              /\ j < i

(* the deck file after create_anki_deck(deck_arg, output_file), as the claim    *)
(* describes it: N+3 lines, the header, one row per entry in the mapping's      *)
(* order, and the destination returned                                          *)
DeckAsDescribed ==
    /\ output_file \in DOMAIN fs
    /\ Len(DeckLines) = Len(deck_arg) + 3
    /\ SubSeq(DeckLines, 1, 3) = ExpectedHeader
    /\ \A i \in 1..Len(deck_arg) :
          DeckLines[3 + i] = ExpectedRow(deck_arg[i][1], Basename(deck_arg[i][2]))
    /\ deck_returned[Len(deck_returned)] = output_file

NoNewlineInside(d) ==
    \A i \in 1..Len(d) : ~HasNewline(d[i][1]) /\ ~HasNewline(Basename(d[i][2]))

(* C2, as stated: for every input mapping of size N the file has exactly N+3    *)
(* lines, the header and then one described row per entry in insertion order,   *)
(* and the destination is returned.                                             *)
C2_AsStated == deck_returned # <<>> => DeckAsDescribed

(* C2, amended: the same for every input mapping in which no word and no audio  *)
(* file basename contains a newline character.                                  *)
C2_DeckFormat ==
    (deck_returned # <<>> /\ NoNewlineInside(deck_arg)) => DeckAsDescribed

C2_Witness ==
    /\ pc = "unit_deck"
    /\ Len(deck_returned) = 1
    /\ Len(deck_arg) = 2
    /\ NoNewlineInside(deck_arg)
    /\ deck_arg[1][1] = <<"b">>
    /\ \E i \in 1..2 : Find(deck_arg[i][2], "/") # 0
                       /\ Basename(deck_arg[i][2]) # deck_arg[i][2]

(* C5: after one run or several runs of create_anki_deck with the same mapping  *)
(* and destination, whatever the destination held before, the file holds what   *)
(* a single run on a fresh destination writes: nothing is appended and nothing  *)
(* of the old content is left.                                                  *)
C5_Overwrites ==
    (pc = "unit_deck" /\ deck_returned # <<>>) =>
        /\ fs[output_file] = create_anki_deck(NoFiles, deck_arg, output_file)[output_file]
        /\ SubSeq(DeckLines, 1, 1) = <<ExpectedHeader[1]>>

C5_Witness ==
    /\ pc = "unit_deck"
    /\ Len(deck_returned) = 2
    /\ Len(deck_arg) >= 1

(* a line split at its first "|" only *)
FirstBarSplit(line) ==
    LET i == Find(line, "|") IN
    <<Strip(SubSeq(line, 1, i - 1)), Strip(SubSeq(line, i + 1, Len(line)))>>

RECURSIVE FirstBarMapping(_, _)
FirstBarMapping(lines, d) ==
    IF lines = <<>> THEN d
    ELSE FirstBarMapping(Tail(lines),
                         DictSet(d, FirstBarSplit(Head(lines))[1],
                                 FirstBarSplit(Head(lines))[2]))

EveryLineHasSeparator(text) ==
    \A k \in 1..Len(Split(Strip(text), "\n")) :
        Find(Split(Strip(text), "\n")[k], "|") # 0

(* C4, as stated: a response in which every line contains "|" is parsed, each   *)
(* line split at its first "|" and both parts trimmed, into the mapping from    *)
(* word to the rest of the line, the last occurrence of a word winning.         *)
C4_AsStated ==
    (pc # "generate" /\ chat_response.ok
        /\ EveryLineHasSeparator(chat_response.content)) =>
        /\ pc = "submit"
        /\ example_sentences = FirstBarMapping(Split(Strip(chat_response.content), "\n"), <<>>)

====
